---- MODULE Spec2Model ----
(***************************************************************************)
(* A model of src/src/lib.rs: parsing of poker hands, their classification *)
(* into nine ranks, the comparison of two hands and winning_hands.         *)
(*                                                                         *)
(* A &str is a sequence of one-character strings.  A BTreeSet<Card> is the *)
(* strictly increasing sequence of its elements (its iteration order).  A  *)
(* HashMap is a function on the set of its keys.  A panic is the record    *)
(* [ok |-> FALSE]; a returned value v is [ok |-> TRUE, val |-> v].         *)
(***************************************************************************)
EXTENDS Integers, Sequences, FiniteSets, TLC

VARIABLES input, hands, pc, result, ord

vars == <<input, hands, pc, result, ord>>

\* ------------------------------------------------------------- enums

\* enum CardSuit, in declaration order (the derived Ord).
Club == 0
Diamond == 1
Heart == 2
Spade == 3

\* enum CardValue, in declaration order (the derived Ord, and `as i8`).
One == 0
Two == 1
Three == 2
Four == 3
Five == 4
Six == 5
Seven == 6
Eight == 7
Nine == 8
Ten == 9
Jack == 10
Queen == 11
King == 12
Ace == 13

\* enum Rank, in declaration order (the derived PartialOrd).
HighCard == 0
OnePair == 1
TwoPair == 2
ThreeOFAKind == 3
Straight == 4
Flush == 5
FullHouse == 6
FourOfAKind == 7
StraightFlush == 8

\* enum Tuple: only equality and hashing are derived.
Single == "Single"
Pair == "Pair"
Triad == "Triad"
Quad == "Quad"

\* Ordering::{Less, Equal, Greater}
Less == "Less"
Equal == "Equal"
Greater == "Greater"

Panic == [ok |-> FALSE]
Ok(v) == [ok |-> TRUE, val |-> v]

\* ---------------------------------------------------- CardSuit::from_str

CardSuitFromStr(s) ==
    CASE s = <<"C">> -> Ok(Club)
      [] s = <<"D">> -> Ok(Diamond)
      [] s = <<"H">> -> Ok(Heart)
      [] s = <<"S">> -> Ok(Spade)
      [] OTHER -> Panic

\* --------------------------------------------------- CardValue::from_str

CARDVALUES ==
    <<One, Two, Three, Four, Five, Six, Seven, Eight, Nine, Ten, Jack, Queen, King, Ace>>

DigitChars == <<"0", "1", "2", "3", "4", "5", "6", "7", "8", "9">>

IsDigit(c) == \E d \in 1..10 : DigitChars[d] = c

DigitValue(c) == (CHOOSE d \in 1..10 : DigitChars[d] = c) - 1

RECURSIVE DecimalValue(_)
DecimalValue(s) ==
    IF s = <<>> THEN 0
    ELSE 10 * DecimalValue(SubSeq(s, 1, Len(s) - 1)) + DigitValue(s[Len(s)])

\* str::parse::<usize>: an optional leading "+", then one or more decimal
\* digits (leading zeros included); anything else is Err.  The strings of
\* this model are far too short to overflow a usize.
ParseUsize(s) ==
    LET digits == IF Len(s) > 1 /\ s[1] = "+" THEN Tail(s) ELSE s
    IN  IF digits # <<>> /\ \A i \in 1..Len(digits) : IsDigit(digits[i])
        THEN Ok(DecimalValue(digits))
        ELSE Panic

CardValueFromStr(s) ==
    LET parsed == ParseUsize(s)
    IN  IF parsed.ok
        THEN IF parsed.val >= 2 /\ parsed.val <= 10
             THEN Ok(CARDVALUES[(parsed.val - 1) + 1])
             ELSE Panic
        ELSE CASE s = <<"J">> -> Ok(Jack)
               [] s = <<"Q">> -> Ok(Queen)
               [] s = <<"K">> -> Ok(King)
               [] s = <<"A">> -> Ok(Ace)
               [] OTHER -> Panic

\* -------------------------------------------------------- Card::from_str

\* s[s.len()-1..] and s[..s.len()-1]: on the empty string s.len()-1
\* underflows, which panics either at the subtraction or at the slice.  The
\* suit is parsed first (the struct literal names it first).
CardFromStr(s) ==
    IF Len(s) = 0 THEN Panic
    ELSE LET suit == CardSuitFromStr(SubSeq(s, Len(s), Len(s)))
             value == CardValueFromStr(SubSeq(s, 1, Len(s) - 1))
         IN  IF suit.ok /\ value.ok
             THEN Ok([value |-> value.val, suit |-> suit.val])
             ELSE Panic

\* #[derive(PartialOrd, Ord)] on Card: by value, then by suit.
CardLess(c1, c2) ==
    \/ c1.value < c2.value
    \/ c1.value = c2.value /\ c1.suit < c2.suit

Abs(n) == IF n < 0 THEN -n ELSE n

is_adjacent(c1, c2) == Abs(c1.value - c2.value) = 1

\* ------------------------------------------------------------- BTreeSet

\* BTreeSet::insert: an equal element is kept as it is, a new one goes to
\* its place in the order.
BTreeInsert(set, c) ==
    IF \E i \in 1..Len(set) : set[i] = c THEN set
    ELSE LET k == Cardinality({i \in 1..Len(set) : CardLess(set[i], c)})
         IN  SubSeq(set, 1, k) \o <<c>> \o SubSeq(set, k + 1, Len(set))

RECURSIVE BTreeCollect(_)
BTreeCollect(seq) ==
    IF seq = <<>> THEN <<>>
    ELSE BTreeInsert(BTreeCollect(SubSeq(seq, 1, Len(seq) - 1)), seq[Len(seq)])

\* ------------------------------------------------------------ str::split

\* src.split(" "): the pieces between single spaces, empty pieces included;
\* a string without a space is one piece.
RECURSIVE SplitFrom(_, _)
SplitFrom(s, piece) ==
    IF s = <<>> THEN <<piece>>
    ELSE IF Head(s) = " " THEN <<piece>> \o SplitFrom(Tail(s), <<>>)
    ELSE SplitFrom(Tail(s), Append(piece, Head(s)))

Split(s) == SplitFrom(s, <<>>)

\* ------------------------------------------------------------ frequencies

Max(S) == CHOOSE m \in S : \A x \in S : x <= m

Min(S) == CHOOSE m \in S : \A x \in S : m <= x

\* The values without the rev(): lowest first.
RECURSIVE DescendingMutant(_)
DescendingMutant(S) ==
    IF S = {} THEN <<>> ELSE <<Min(S)>> \o DescendingMutant(S \ {Min(S)})

\* BTreeSet<CardValue>::into_iter().rev().collect(): the values, highest first.
RECURSIVE Descending(_)
Descending(S) ==
    IF S = {} THEN <<>> ELSE <<Max(S)>> \o Descending(S \ {Max(S)})

TupleOfCount(count) ==
    CASE count = 1 -> Ok(Single)
      [] count = 2 -> Ok(Pair)
      [] count = 3 -> Ok(Triad)
      [] count = 4 -> Ok(Quad)
      [] OTHER -> Panic

\* h1 counts each value; h2 groups the values by their count; the result
\* maps each multiplicity that occurs to its values, highest first.
frequencies(values) ==
    LET keys == {values[i] : i \in 1..Len(values)}
        h1 == [v \in keys |-> Cardinality({i \in 1..Len(values) : values[i] = v})]
    IN  IF \E v \in keys : ~TupleOfCount(h1[v]).ok THEN Panic
        ELSE LET tuples == {TupleOfCount(h1[v]).val : v \in keys}
                 h2 == [t \in tuples |-> {v \in keys : TupleOfCount(h1[v]).val = t}]
             IN  Ok([t \in tuples |-> Descending(h2[t])])

\* ------------------------------------------------------- the predicates

\* iter().zip(iter().skip(1)).all(is_adjacent)
AllAdjacent(cards) ==
    \A i \in 1..(Len(cards) - 1) : is_adjacent(cards[i], cards[i + 1])

\* The Ace left as it is.
AceAsOneMutant(c) == c

\* The closure of line 127: an Ace becomes a One of the same suit.
AceAsOne(c) == IF c.value = Ace THEN [value |-> One, suit |-> c.suit] ELSE c

\* is_straight(&mut hand): the returned bool, and hand.cards as the call
\* leaves them (replaced by the Ace-as-One cards when those are a run).
is_straight(hand) ==
    IF AllAdjacent(hand.cards) THEN [ret |-> TRUE, cards |-> hand.cards]
    ELSE LET new_cards == BTreeCollect([i \in 1..Len(hand.cards) |-> AceAsOne(hand.cards[i])])
         IN  IF AllAdjacent(new_cards)
             THEN [ret |-> TRUE, cards |-> new_cards]
             ELSE [ret |-> FALSE, cards |-> hand.cards]

is_flush(hand) ==
    \A i \in 1..(Len(hand.cards) - 1) : hand.cards[i].suit = hand.cards[i + 1].suit

is_four_of_a_kind(hand) == Quad \in DOMAIN hand.freq

have_one_pair(hand) == Pair \in DOMAIN hand.freq

\* The number of pairs not looked at.
have_two_pairMutant(hand) == Pair \in DOMAIN hand.freq

have_two_pair(hand) == Pair \in DOMAIN hand.freq /\ Len(hand.freq[Pair]) = 2

have_three_of_a_kind(hand) == Triad \in DOMAIN hand.freq

is_full_house(hand) == have_three_of_a_kind(hand) /\ have_one_pair(hand)

\* ------------------------------------------------------- Hand::from_str

\* Lines 169-176 on the hand of line 167.  The first is_straight call runs
\* always and may replace the cards; the second runs on what the first left.
Classify(hand0) ==
    LET s1 == is_straight(hand0)
        h1 == [hand0 EXCEPT !.cards = s1.cards]
        s2 == is_straight(h1)
        h2 == [h1 EXCEPT !.cards = s2.cards]
    IN  IF s1.ret /\ is_flush(h1) THEN [h1 EXCEPT !.rank = StraightFlush]
        ELSE IF is_four_of_a_kind(h1) THEN [h1 EXCEPT !.rank = FourOfAKind]
        ELSE IF is_full_house(h1) THEN [h1 EXCEPT !.rank = FullHouse]
        ELSE IF is_flush(h1) THEN [h1 EXCEPT !.rank = Flush]
        ELSE IF s2.ret THEN [h2 EXCEPT !.rank = Straight]
        ELSE IF have_three_of_a_kind(h2) THEN [h2 EXCEPT !.rank = ThreeOFAKind]
        ELSE IF have_two_pair(h2) THEN [h2 EXCEPT !.rank = TwoPair]
        ELSE IF have_one_pair(h2) THEN [h2 EXCEPT !.rank = OnePair]
        ELSE h2

HandFromStr(src) ==
    LET cards_str == Split(src)
        parsed == [i \in 1..Len(cards_str) |-> CardFromStr(cards_str[i])]
    IN  IF Len(cards_str) # 5 THEN Panic
        ELSE IF \E i \in 1..Len(parsed) : ~parsed[i].ok THEN Panic
        ELSE LET cards == BTreeCollect([i \in 1..Len(parsed) |-> parsed[i].val])
                 values == [i \in 1..Len(cards) |-> cards[i].value]
                 freq == frequencies(values)
             IN  IF ~freq.ok THEN Panic
                 ELSE Ok(Classify([cards |-> cards, src |-> src,
                                   rank |-> HighCard, freq |-> freq.val]))

\* ------------------------------------------------- Hand::partial_cmp

IntCmp(a, b) == IF a < b THEN Less ELSE IF a > b THEN Greater ELSE Equal

\* Vec<CardValue>::partial_cmp: lexicographic from the first element; a
\* proper prefix is Less.
RECURSIVE VecCmp(_, _)
VecCmp(v1, v2) ==
    IF v1 = <<>> /\ v2 = <<>> THEN Equal
    ELSE IF v1 = <<>> THEN Less
    ELSE IF v2 = <<>> THEN Greater
    ELSE IF Head(v1) # Head(v2) THEN IntCmp(Head(v1), Head(v2))
    ELSE VecCmp(Tail(v1), Tail(v2))

\* (&Vec, &Vec)::partial_cmp: the first components, then the second.
TupleCmp(v11, v12, v21, v22) ==
    IF VecCmp(v11, v21) # Equal THEN VecCmp(v11, v21) ELSE VecCmp(v12, v22)

\* Card::partial_cmp (derived): by value, then by suit.
CardCmp(c1, c2) ==
    IF c1.value # c2.value THEN IntCmp(c1.value, c2.value)
    ELSE IntCmp(c1.suit, c2.suit)

\* Rank declared with Flush below Straight.
RankCmpMutant(r1, r2) ==
    LET swap(r) == IF r = Straight THEN Flush ELSE IF r = Flush THEN Straight ELSE r
    IN  IntCmp(swap(r1), swap(r2))

\* Rank::partial_cmp (derived): by declaration order.
RankCmp(r1, r2) == IntCmp(r1, r2)

\* The arms that read two groups of freq; unwrap panics on a missing group.
FreqCmp(self, other, t1, t2) ==
    IF {t1, t2} \subseteq DOMAIN self.freq /\ {t1, t2} \subseteq DOMAIN other.freq
    THEN Ok(TupleCmp(self.freq[t1], self.freq[t2], other.freq[t1], other.freq[t2]))
    ELSE Panic

CardValues(hand) == [i \in 1..Len(hand.cards) |-> hand.cards[i].value]

PartialCmp(self, other) ==
    IF self.rank # other.rank THEN Ok(RankCmp(self.rank, other.rank))
    ELSE CASE self.rank \in {Straight, StraightFlush} ->
                Ok(CardCmp(self.cards[1], other.cards[1]))
           [] self.rank \in {HighCard, Flush} ->
                Ok(VecCmp(CardValues(self), CardValues(other)))
           [] self.rank = FourOfAKind -> FreqCmp(self, other, Quad, Single)
           [] self.rank = FullHouse -> FreqCmp(self, other, Triad, Pair)
           [] self.rank = ThreeOFAKind -> FreqCmp(self, other, Triad, Single)
           [] self.rank \in {OnePair, TwoPair} -> FreqCmp(self, other, Pair, Single)

\* ------------------------------------------------------- winning_hands

\* slice::sort_by on a short slice: a stable insertion sort.  The element x
\* moves left past every element it is Less than; the closure of line 228
\* reads a None as Less, and a panic inside partial_cmp ends the call.
RECURSIVE InsertTail(_, _, _)
InsertTail(sorted, x, j) ==
    IF j = 0 THEN Ok(<<x>> \o sorted)
    ELSE LET c == PartialCmp(x, sorted[j])
         IN  IF ~c.ok THEN Panic
             ELSE IF c.val = Less THEN InsertTail(sorted, x, j - 1)
             ELSE Ok(SubSeq(sorted, 1, j) \o <<x>> \o SubSeq(sorted, j + 1, Len(sorted)))

RECURSIVE SortBy(_)
SortBy(v) ==
    IF Len(v) <= 1 THEN Ok(v)
    ELSE LET prefix == SortBy(SubSeq(v, 1, Len(v) - 1))
         IN  IF ~prefix.ok THEN Panic
             ELSE InsertTail(prefix.val, v[Len(v)], Len(prefix.val))

\* The vector left in ascending order.
ReverseMutant(v) == v

\* Vec::reverse
Reverse(v) == [i \in 1..Len(v) |-> v[Len(v) + 1 - i]]

\* iter().filter(pred) on a sequence, in order.
RECURSIVE FilterEqual(_, _)
FilterEqual(v, hand) ==
    IF v = <<>> THEN <<>>
    ELSE IF PartialCmp(Head(v), hand).val = Equal
         THEN <<Head(v)>> \o FilterEqual(Tail(v), hand)
         ELSE FilterEqual(Tail(v), hand)

Sources(v) == [i \in 1..Len(v) |-> v[i].src]

\* Line 227, one element of the map: Hand::from_str on the next input.
ParseNext ==
    /\ pc = "parse"
    /\ Len(hands) < Len(input)
    /\ LET h == HandFromStr(input[Len(hands) + 1])
       IN  IF h.ok
           THEN hands' = Append(hands, h.val) /\ pc' = "parse"
           ELSE hands' = hands /\ pc' = "panic"
    /\ UNCHANGED <<input, result, ord>>

\* Line 228.
SortHands ==
    /\ pc = "parse"
    /\ Len(hands) = Len(input)
    /\ LET sorted == SortBy(hands)
       IN  IF sorted.ok
           THEN hands' = sorted.val /\ pc' = "reverse"
           ELSE hands' = hands /\ pc' = "panic"
    /\ UNCHANGED <<input, result, ord>>

\* Line 229.
ReverseHands ==
    /\ pc = "reverse"
    /\ hands' = Reverse(hands)
    /\ pc' = "select"
    /\ UNCHANGED <<input, result, ord>>

\* Lines 230-232: the hands that compare Equal to hands[0]; the unwrap of a
\* comparison that panics ends the call.
FilterWinners ==
    /\ pc = "select"
    /\ Len(hands) > 1
    /\ IF \A i \in 1..Len(hands) : PartialCmp(hands[i], hands[1]).ok
       THEN result' = Sources(FilterEqual(hands, hands[1])) /\ pc' = "done"
       ELSE result' = result /\ pc' = "panic"
    /\ UNCHANGED <<input, hands, ord>>

\* Lines 233-235.
ReturnAll ==
    /\ pc = "select"
    /\ Len(hands) <= 1
    /\ result' = Sources(hands)
    /\ pc' = "done"
    /\ UNCHANGED <<input, hands, ord>>

\* Hand::partial_cmp on the two parsed hands, on its own.
CompareHands ==
    /\ pc = "parse"
    /\ Len(hands) = Len(input)
    /\ LET c == PartialCmp(hands[1], hands[2])
       IN  ord' = IF c.ok THEN c.val ELSE "Panic"
    /\ pc' = "compared"
    /\ UNCHANGED <<input, hands, result>>

\* ------------------------------------------------------------- inputs

\* format!-style text of a value name: one character each, but for the
\* names of more than one character.
ValueText(v) ==
    CASE v = "10" -> <<"1", "0">>
      [] v = "11" -> <<"1", "1">>
      [] v = "+2" -> <<"+", "2">>
      [] v = "02" -> <<"0", "2">>
      [] v = "" -> <<>>
      [] OTHER -> <<v>>

RECURSIVE Text(_)
Text(tokens) ==
    IF tokens = <<>> THEN <<>>
    ELSE IF Len(tokens) = 1 THEN tokens[1]
    ELSE tokens[1] \o <<" ">> \o Text(Tail(tokens))

\* The text of a hand written as value, suit, value, suit, ...
H(p) == Text([k \in 1..(Len(p) \div 2) |-> ValueText(p[2 * k - 1]) \o <<p[2 * k]>>])

\* The hands winning_hands is run on, by what they exercise.
StraightFlushHands ==
    {H(<<"4", "S", "5", "S", "6", "S", "7", "S", "8", "S">>),
     H(<<"A", "H", "2", "H", "3", "H", "4", "H", "5", "H">>),
     H(<<"5", "D", "4", "D", "3", "D", "2", "D", "A", "D">>),
     H(<<"2", "D", "3", "D", "4", "D", "5", "D", "6", "D">>),
     H(<<"10", "C", "J", "C", "Q", "C", "K", "C", "A", "C">>)}

FourOfAKindHands ==
    {H(<<"2", "C", "2", "D", "2", "H", "2", "S", "9", "C">>),
     H(<<"3", "C", "3", "D", "3", "H", "3", "S", "2", "C">>),
     H(<<"3", "S", "4", "D", "3", "H", "3", "D", "3", "C">>)}

FullHouseHands ==
    {H(<<"3", "C", "3", "D", "3", "H", "5", "S", "5", "C">>),
     H(<<"3", "C", "4", "H", "3", "D", "4", "C", "3", "S">>),
     H(<<"2", "C", "2", "D", "2", "H", "A", "S", "A", "C">>)}

FlushHands ==
    {H(<<"2", "H", "3", "H", "5", "H", "9", "H", "A", "H">>),
     H(<<"3", "D", "4", "D", "6", "D", "9", "D", "K", "D">>),
     H(<<"A", "S", "9", "S", "5", "S", "3", "S", "2", "S">>)}

StraightHands ==
    {H(<<"A", "S", "2", "D", "3", "C", "4", "H", "5", "S">>),
     H(<<"A", "C", "2", "D", "3", "C", "4", "H", "5", "S">>),
     H(<<"2", "C", "3", "D", "4", "H", "5", "S", "6", "C">>),
     H(<<"2", "D", "3", "C", "4", "H", "5", "S", "6", "C">>),
     H(<<"K", "C", "Q", "D", "J", "H", "10", "S", "9", "C">>),
     H(<<"10", "D", "J", "H", "Q", "S", "K", "C", "A", "D">>)}

ThreeOfAKindHands ==
    {H(<<"3", "C", "3", "D", "3", "H", "A", "S", "2", "C">>),
     H(<<"3", "C", "K", "H", "3", "D", "4", "C", "3", "S">>),
     H(<<"4", "C", "4", "D", "4", "S", "2", "H", "3", "C">>),
     H(<<"A", "C", "A", "D", "A", "H", "2", "S", "3", "D">>)}

TwoPairHands ==
    {H(<<"5", "C", "5", "D", "9", "H", "9", "D", "K", "S">>),
     H(<<"5", "H", "5", "S", "9", "C", "9", "S", "K", "D">>),
     H(<<"6", "C", "6", "D", "8", "H", "8", "D", "Q", "S">>),
     H(<<"5", "C", "5", "D", "9", "H", "9", "S", "A", "S">>)}

OnePairHands ==
    {H(<<"2", "D", "2", "C", "3", "C", "4", "C", "5", "C">>),
     H(<<"5", "C", "5", "D", "A", "H", "3", "S", "2", "C">>),
     H(<<"5", "H", "5", "S", "K", "H", "4", "S", "3", "C">>),
     H(<<"6", "C", "4", "H", "6", "D", "3", "S", "2", "C">>)}

HighCardHands ==
    {H(<<"2", "H", "4", "D", "5", "S", "9", "C", "K", "D">>),
     H(<<"3", "H", "5", "D", "6", "S", "9", "C", "K", "D">>),
     H(<<"2", "H", "3", "D", "5", "S", "9", "C", "A", "D">>),
     H(<<"3", "H", "4", "D", "6", "S", "9", "C", "K", "D">>),
     H(<<"A", "H", "9", "S", "5", "D", "3", "H", "2", "C">>),
     H(<<"Q", "C", "K", "D", "A", "H", "2", "S", "3", "C">>)}

LenientHands ==
    {H(<<"+2", "H", "3", "D", "4", "S", "5", "C", "7", "H">>),
     H(<<"02", "C", "3", "D", "5", "S", "9", "C", "A", "D">>)}

DuplicateHands ==
    {H(<<"2", "H", "2", "H", "3", "D", "4", "S", "5", "C">>),
     H(<<"2", "H", "2", "H", "2", "D", "2", "S", "2", "C">>),
     H(<<"2", "H", "2", "H", "2", "H", "2", "H", "2", "H">>)}

MalformedHands ==
    {H(<<"2", "H", "3", "D", "4", "S", "5", "C">>),
     H(<<"2", "H", "3", "D", "4", "S", "5", "C", "6", "H", "7", "D">>),
     <<"2", "H", " ", "3", "D", " ", " ", "4", "S", " ", "5", "C", " ", "6", "H">>,
     <<>>,
     H(<<"2", "X", "3", "D", "4", "S", "5", "C", "6", "H">>),
     H(<<"2", "h", "3", "D", "4", "S", "5", "C", "6", "H">>),
     H(<<"1", "H", "3", "D", "4", "S", "5", "C", "6", "H">>),
     H(<<"11", "H", "3", "D", "4", "S", "5", "C", "6", "H">>),
     H(<<"T", "H", "J", "H", "Q", "H", "K", "H", "A", "H">>),
     H(<<"", "H", "3", "D", "4", "S", "5", "C", "6", "H">>)}

SampleHands ==
    StraightFlushHands \cup FourOfAKindHands \cup FullHouseHands \cup FlushHands
    \cup StraightHands \cup ThreeOfAKindHands \cup TwoPairHands \cup OnePairHands
    \cup HighCardHands \cup LenientHands \cup DuplicateHands \cup MalformedHands

\* The longest list winning_hands is called with.
MaxHands == 2

RECURSIVE SeqsUpTo(_, _)
SeqsUpTo(S, n) ==
    IF n = 0 THEN {<<>>}
    ELSE LET shorter == SeqsUpTo(S, n - 1)
         IN  shorter \cup {Append(q, x) : q \in {r \in shorter : Len(r) = n - 1}, x \in S}

Init ==
    /\ input \in SeqsUpTo(SampleHands, MaxHands)
    /\ hands = <<>>
    /\ pc = "parse"
    /\ result = <<>>
    /\ ord = "None"

Next == ParseNext \/ SortHands \/ ReverseHands \/ FilterWinners \/ ReturnAll

Spec == Init /\ [][Next]_vars

\* ----------------------------------------------- inputs, systematically

\* The cards of the given values and suits as tokens, suit by suit.
Deck(values, suits) ==
    [k \in 1..(Len(values) * Len(suits)) |->
        ValueText(values[((k - 1) % Len(values)) + 1])
            \o <<suits[((k - 1) \div Len(values)) + 1]>>]

\* The increasing 5-tuples of 1..n: one per set of five cards of a deck of n.
Combinations(n) ==
    UNION {UNION {UNION {UNION {{<<a, b, c, d, e>> : e \in (d + 1)..n}
        : d \in (c + 1)..n} : c \in (b + 1)..n} : b \in (a + 1)..n} : a \in 1..n}

AllSuits == <<"C", "D", "H", "S">>

\* The low cards (wheel and six-high straight), the high cards (ace-high
\* straight) and the cards around the ace.
LowDeck == Deck(<<"A", "2", "3", "4", "5", "6">>, AllSuits)

HighDeck == Deck(<<"9", "10", "J", "Q", "K", "A">>, AllSuits)

WrapDeck == Deck(<<"Q", "K", "A", "2", "3">>, AllSuits)

Decks == {LowDeck, HighDeck, WrapDeck}

\* The text of the cards c of a deck, in the deck's order.
HandOfDeck(deck, c) == Text(<<deck[c[1]], deck[c[2]], deck[c[3]], deck[c[4]], deck[c[5]]>>)

InitClassify ==
    /\ \E deck \in Decks : \E c \in Combinations(Len(deck)) : input = <<HandOfDeck(deck, c)>>
    /\ hands = <<>>
    /\ pc = "parse"
    /\ result = <<>>
    /\ ord = "None"

NextClassify == ParseNext

SpecClassify == InitClassify /\ [][NextClassify]_vars

\* The values of a hand by pattern: every non-decreasing choice of five of
\* the pattern values, no value more than four times; the k-th card of a
\* value gets the k-th suit, and a hand of five different values comes in
\* one suit and with its first card in another.
PatternValues == <<"A", "2", "3", "4", "5", "6">>

Patterns ==
    {c \in UNION {UNION {UNION {UNION {{<<a, b, c, d, e>> : e \in d..Len(PatternValues)}
        : d \in c..Len(PatternValues)} : c \in b..Len(PatternValues)}
        : b \in a..Len(PatternValues)} : a \in 1..Len(PatternValues)} : c[1] # c[5]}

PatternToken(c, k, first) ==
    ValueText(PatternValues[c[k]])
        \o <<IF k = 1 THEN first
             ELSE AllSuits[Cardinality({j \in 1..(k - 1) : c[j] = c[k]}) + 1]>>

PatternHands ==
    {Text([k \in 1..5 |-> PatternToken(c, k, "C")]) : c \in Patterns}
    \cup {Text([k \in 1..5 |-> PatternToken(c, k, "D")])
            : c \in {p \in Patterns : Cardinality({p[k] : k \in 1..5}) = 5}}

InitCompare ==
    /\ \E a \in PatternHands, b \in PatternHands : input = <<a, b>>
    /\ hands = <<>>
    /\ pc = "parse"
    /\ result = <<>>
    /\ ord = "None"

NextCompare == ParseNext \/ CompareHands

SpecCompare == InitCompare /\ [][NextCompare]_vars

\* ------------------------------------------- the rules of the hands

\* The tokens of a hand text: its maximal runs of characters other than
\* the space.
RECURSIVE WordsFrom(_, _)
WordsFrom(s, word) ==
    IF s = <<>> THEN (IF word = <<>> THEN <<>> ELSE <<word>>)
    ELSE IF Head(s) = " "
         THEN (IF word = <<>> THEN <<>> ELSE <<word>>) \o WordsFrom(Tail(s), <<>>)
         ELSE WordsFrom(Tail(s), Append(word, Head(s)))

Words(s) == WordsFrom(s, <<>>)

\* The card token grammar: <value><suit>.
SuitLetters == {"C", "D", "H", "S"}

ValueNames ==
    {<<"2">>, <<"3">>, <<"4">>, <<"5">>, <<"6">>, <<"7">>, <<"8">>, <<"9">>,
     <<"1", "0">>, <<"J">>, <<"Q">>, <<"K">>, <<"A">>}

IsCardToken(w) ==
    /\ Len(w) >= 2
    /\ w[Len(w)] \in SuitLetters
    /\ SubSeq(w, 1, Len(w) - 1) \in ValueNames

\* Exactly five tokens, each of the grammar.
WellFormed(s) ==
    LET w == Words(s) IN Len(w) = 5 /\ \A i \in 1..5 : IsCardToken(w[i])

\* The same token twice: the same card twice.
HasDuplicateCard(s) ==
    LET w == Words(s) IN \E i, j \in 1..Len(w) : i # j /\ w[i] = w[j]

\* A valid hand: five different cards, separated by single spaces.
ValidHand(s) ==
    LET w == Words(s)
    IN  /\ Len(w) = 5
        /\ \A i \in 1..5 : IsCardToken(w[i])
        /\ \A i, j \in 1..5 : i # j => w[i] # w[j]
        /\ s = Text(w)

\* The value of a card in the game: 2..10, jack 11, queen 12, king 13, ace 14.
PipsOf(name) ==
    CASE name = <<"J">> -> 11
      [] name = <<"Q">> -> 12
      [] name = <<"K">> -> 13
      [] name = <<"A">> -> 14
      [] name = <<"1", "0">> -> 10
      [] OTHER -> CHOOSE n \in 2..9 : DigitChars[n + 1] = name[1]

\* The five cards of a valid hand, as [pips, suit].
CardsOf(s) ==
    LET w == Words(s)
    IN  {[pips |-> PipsOf(SubSeq(w[i], 1, Len(w[i]) - 1)), suit |-> w[i][Len(w[i])]]
            : i \in 1..5}

Pips(cards) == {c.pips : c \in cards}

Multiplicity(cards, v) == Cardinality({c \in cards : c.pips = v})

WheelPips == {14, 2, 3, 4, 5}

CardsFlush(cards) == Cardinality({c.suit : c \in cards}) = 1

CardsStraight(cards) ==
    LET pips == Pips(cards)
    IN  /\ Cardinality(pips) = 5
        /\ \/ \A v \in pips : \A w \in pips : v - w <= 4
           \/ pips = WheelPips

\* The category of five cards by the priority list, first match wins.
CardsRank(cards) ==
    LET pips == Pips(cards)
        mult == [v \in pips |-> Multiplicity(cards, v)]
        pairs == {v \in pips : mult[v] = 2}
        triads == {v \in pips : mult[v] = 3}
        quads == {v \in pips : mult[v] = 4}
        flush == CardsFlush(cards)
        straight == CardsStraight(cards)
    IN  CASE straight /\ flush -> StraightFlush
          [] quads # {} -> FourOfAKind
          [] triads # {} /\ pairs # {} -> FullHouse
          [] flush -> Flush
          [] straight -> Straight
          [] triads # {} -> ThreeOFAKind
          [] Cardinality(pairs) = 2 -> TwoPair
          [] Cardinality(pairs) = 1 -> OnePair
          [] OTHER -> HighCard

\* The tie-break key of five cards: their different values, those of a
\* higher multiplicity first, and among equal multiplicities the higher
\* value first.
RECURSIVE KeyOf(_, _)
KeyOf(mult, left) ==
    IF left = {} THEN <<>>
    ELSE LET best == CHOOSE v \in left : \A w \in left :
                        \/ mult[v] > mult[w]
                        \/ mult[v] = mult[w] /\ v >= w
         IN  <<best>> \o KeyOf(mult, left \ {best})

CardsKey(cards) ==
    KeyOf([v \in Pips(cards) |-> Multiplicity(cards, v)], Pips(cards))

PipsIn(s) == Pips(CardsOf(s))

IsWheel(s) == PipsIn(s) = WheelPips

RuleFlush(s) == CardsFlush(CardsOf(s))

RuleStraight(s) == CardsStraight(CardsOf(s))

RuleRank(s) == CardsRank(CardsOf(s))

RuleKey(s) == CardsKey(CardsOf(s))

\* Two keys of one length, compared from the most significant value.
KeyCmp(k1, k2) ==
    IF k1 = k2 THEN Equal
    ELSE LET d == CHOOSE i \in 1..Len(k1) :
                    k1[i] # k2[i] /\ \A j \in 1..(i - 1) : k1[j] = k2[j]
         IN  IF k1[d] > k2[d] THEN Greater ELSE Less

Range(q) == {q[i] : i \in 1..Len(q)}

AllValid == \A i \in 1..Len(input) : ValidHand(input[i])

Count(q, x) == Cardinality({k \in 1..Len(q) : q[k] = x})

\* The strings of q that are in S, in the order q has them.
RECURSIVE Keep(_, _)
Keep(q, S) ==
    IF q = <<>> THEN <<>>
    ELSE IF Head(q) \in S THEN <<Head(q)>> \o Keep(Tail(q), S)
    ELSE Keep(Tail(q), S)

SameValues(s, t) ==
    \A v \in PipsIn(s) \cup PipsIn(t) :
        Multiplicity(CardsOf(s), v) = Multiplicity(CardsOf(t), v)

Returned(i) == input[i] \in Range(result)

\* --------------------------------------------------------- the claims

\* C1: when winning_hands has returned on valid hands, the winners are
\* listed in the relative order the input has them.
C1_WinnersKeepInputOrder ==
    (pc = "done" /\ AllValid) => result = Keep(input, Range(result))

\* C2: of two valid hands of one category and with the same five values,
\* winning_hands returns both: suits never break a tie.
C2_SuitNeverBreaksTie ==
    (pc = "done" /\ AllValid /\ Len(input) = 2
        /\ RuleRank(input[1]) = RuleRank(input[2])
        /\ SameValues(input[1], input[2]))
    => (Len(result) = 2 /\ Range(result) = Range(input))

\* C3: of two valid hands that are both Flush or both HighCard, the one
\* whose values, highest first, are lexicographically greater is the only
\* winner.
C3_HighestCardDecides ==
    (pc = "done" /\ AllValid /\ Len(input) = 2) =>
        \A i, j \in 1..2 :
            (/\ RuleRank(input[i]) = RuleRank(input[j])
             /\ RuleRank(input[i]) \in {HighCard, Flush}
             /\ KeyCmp(RuleKey(input[i]), RuleKey(input[j])) = Greater)
            => result = <<input[i]>>

\* C4: a call whose input has a hand with the same card twice does not
\* return, and no Hand of fewer than five cards is ever constructed.
C4_DuplicateCardFails ==
    /\ \A k \in 1..Len(hands) : Len(hands[k].cards) = 5
    /\ pc = "done" => \A i \in 1..Len(input) : ~HasDuplicateCard(input[i])

\* C5: on one or more valid hands winning_hands returns exactly the
\* maximal inputs: the result is not empty, holds input strings only, the
\* returned hands compare Equal to one another, every other hand compares
\* Less than the returned ones, every copy of a returned string is
\* returned, and a single hand is returned as it is.
C5_WinnersAreTheMaximalHands ==
    (pc = "done" /\ AllValid /\ Len(input) >= 1) =>
        LET parsed == [i \in 1..Len(input) |-> HandFromStr(input[i]).val]
        IN  /\ result # <<>>
            /\ Range(result) \subseteq Range(input)
            /\ \A i, j \in 1..Len(input) :
                  /\ (Returned(i) /\ Returned(j))
                        => PartialCmp(parsed[i], parsed[j]) = Ok(Equal)
                  /\ (~Returned(i) /\ Returned(j))
                        => PartialCmp(parsed[i], parsed[j]) = Ok(Less)
            /\ \A i \in 1..Len(input) :
                  Returned(i) => Count(result, input[i]) = Count(input, input[i])
            /\ Len(input) = 1 => result = input

C5_Witness ==
    /\ pc = "done" /\ AllValid
    /\ Len(input) >= 2
    /\ Len(result) < Len(input)

\* C6: a valid hand of a lower category than another hand of the input is
\* never returned, and of two hands of different categories the one of the
\* higher category is the only hand returned.
C6_HigherCategoryWins ==
    (pc = "done" /\ AllValid) =>
        \A i, j \in 1..Len(input) :
            RuleRank(input[i]) > RuleRank(input[j])
            => /\ input[j] \notin Range(result)
               /\ Len(input) = 2 => result = <<input[i]>>

C6_Witness ==
    /\ pc = "done" /\ AllValid
    /\ Len(input) = 2
    /\ RuleRank(input[1]) = ThreeOFAKind
    /\ RuleRank(input[2]) = Straight
    /\ result = <<input[2]>>

\* C7: a wheel is a Straight (a StraightFlush in one suit) whose Ace is
\* stored as the lowest value; against one other hand it loses to every
\* other straight of its category and beats every hand below Straight.
C7_WheelIsTheLowestStraight ==
    /\ \A k \in 1..Len(hands) :
          (ValidHand(hands[k].src) /\ IsWheel(hands[k].src)) =>
              /\ hands[k].rank = IF RuleFlush(hands[k].src) THEN StraightFlush ELSE Straight
              /\ hands[k].cards[1].value = One
              /\ \A n \in 1..Len(hands[k].cards) : hands[k].cards[n].value # Ace
    /\ (pc = "done" /\ AllValid /\ Len(input) = 2) =>
          \A i, j \in 1..2 :
              IsWheel(input[i]) =>
                  /\ (/\ RuleStraight(input[j]) /\ ~IsWheel(input[j])
                      /\ RuleFlush(input[j]) = RuleFlush(input[i]))
                     => result = <<input[j]>>
                  /\ RuleRank(input[j]) < Straight => result = <<input[i]>>

C7_Witness ==
    /\ pc = "done" /\ AllValid
    /\ Len(input) = 2
    /\ IsWheel(input[1]) /\ ~RuleFlush(input[1])
    /\ RuleRank(input[2]) = Straight /\ PipsIn(input[2]) = {2, 3, 4, 5, 6}
    /\ result = <<input[2]>>

\* C8: a call whose input has a hand that is not five tokens of the card
\* grammar (suit C/D/H/S, value 2..10/J/Q/K/A) does not return.
C8_MalformedInputFails ==
    pc = "done" => \A i \in 1..Len(input) : WellFormed(input[i])

\* Beside C8: every hand Hand::from_str panics on ends the whole call, so
\* a call that returns has parsed every input.
ParseFailureEndsTheCall ==
    pc = "done" =>
        /\ Len(hands) = Len(input)
        /\ \A i \in 1..Len(input) : HandFromStr(input[i]).ok

\* C9: every valid hand gets the category of the first matching rule of
\* the priority list.
C9_CategoryByPriority ==
    \A k \in 1..Len(hands) :
        ValidHand(hands[k].src) => hands[k].rank = RuleRank(hands[k].src)

C9_Witness ==
    /\ Len(hands) = 1
    /\ ValidHand(hands[1].src)
    /\ {14, 13} \subseteq PipsIn(hands[1].src)
    /\ hands[1].rank = Straight

\* C10: two valid hands of one category among FourOfAKind, FullHouse,
\* ThreeOFAKind, TwoPair and OnePair compare as their tie-break keys do,
\* from the most significant value on.
C10_TieBreakKeyDecides ==
    (/\ pc = "compared" /\ AllValid
     /\ RuleRank(input[1]) = RuleRank(input[2])
     /\ RuleRank(input[1]) \in {FourOfAKind, FullHouse, ThreeOFAKind, TwoPair, OnePair})
    => ord = KeyCmp(RuleKey(input[1]), RuleKey(input[2]))

C10_Witness ==
    /\ pc = "compared" /\ AllValid
    /\ RuleRank(input[1]) = TwoPair /\ RuleRank(input[2]) = TwoPair
    /\ RuleKey(input[1])[1] = RuleKey(input[2])[1]
    /\ RuleKey(input[1])[2] = RuleKey(input[2])[2]
    /\ RuleKey(input[1])[3] > RuleKey(input[2])[3]
    /\ ord = Greater

====
